---- MODULE Spec2Model ----
(***************************************************************************)
(* USFInd lost-and-found matcher.                                          *)
(*                                                                         *)
(* src/matching_service.py  calculate_match_score                          *)
(* src/database.py          add_found_item, add_lost_item,                 *)
(*                          get_all_found_items                            *)
(* src/app.py               page_found_item, page_lost_item                *)
(* src/ai_service.py        extract_item_info                              *)
(*                                                                         *)
(* A Python str is a sequence of one-character strings.  A dict is a       *)
(* function whose DOMAIN is its set of keys; a value is a tagged record,   *)
(* Str(s) for a str and None for Python's None (an SQL NULL read back).    *)
(***************************************************************************)
EXTENDS Integers, Sequences, FiniteSets, TLC

VARIABLES
    lost_item,      \* first argument of the current calculate_match_score call
    found_item,     \* second argument of the current call
    result,         \* outcome of the current call
    prev,           \* outcome of the call before it
    pc,             \* position of the scoring harness
    found_table,    \* rows of the found_items table, in rowid order
    lost_rows,      \* number of rows of the lost_items table
    item_info,      \* page_lost_item: the query record
    found_items,    \* page_lost_item: the list get_all_found_items returned
    matches,        \* page_lost_item: the (score, found_item) list
    shown,          \* page_lost_item: the matches displayed as cards
    status          \* outcome of the last page run

vars == <<lost_item, found_item, result, prev, pc,
          found_table, lost_rows, item_info, found_items, matches, shown,
          status>>

scoreVars == <<lost_item, found_item, result, prev, pc>>
pageVars  == <<found_table, lost_rows, item_info, found_items, matches, shown,
               status>>

----------------------------------------------------------------------------
(* Bounds of the model *)

MaxTokens == 4      \* longest generated features string, in tokens
MaxColorLen == 2    \* longest generated color string, in characters
MaxItems == 2       \* most rows of the found_items table
MaxLost == 1        \* most rows of the lost_items table
ShowRows == 7       \* rows of the found_items table when the display is checked

----------------------------------------------------------------------------
(* Values and dicts *)

Str(s) == [t |-> "str", v |-> s]
None == [t |-> "None", v |-> <<>>]
Absent == [t |-> "absent", v |-> <<>>]   \* marks a key a dict does not hold

IsStr(x) == x.t = "str"

\* dict.get(key, default)
Get(d, key, default) == IF key \in DOMAIN d THEN d[key] ELSE default

EmptyStr == Str(<<>>)

\* the literal "Unknown"
Unknown == <<"U", "n", "k", "n", "o", "w", "n">>

ScoredFields == {"item_type", "color", "brand", "features"}

\* a dict with the four scored keys, leaving out the keys whose slot is Absent
MkItem(ty, co, br, fe) ==
    LET full == [item_type |-> ty, color |-> co, brand |-> br, features |-> fe]
    IN  [k \in {f \in ScoredFields : full[f] # Absent} |-> full[k]]

----------------------------------------------------------------------------
(* str methods *)

\* str.lower() on one character
LowerChar(c) ==
    CASE c = "A" -> "a"
      [] c = "B" -> "b"
      [] c = "C" -> "c"
      [] c = "D" -> "d"
      [] c = "U" -> "u"
      [] c = "E" -> "e"
      [] OTHER -> c

\* str.lower()
Lower(s) == [i \in 1..Len(s) |-> LowerChar(s[i])]

\* the characters str.split() separates on
Whitespace == {" ", "\t", "\n"}

\* x in y, for two strs
Contains(x, y) ==
    \E i \in 0..(Len(y) - Len(x)) : SubSeq(y, i + 1, i + Len(x)) = x

\* str.split(): the maximal runs of non-whitespace characters, in order
RECURSIVE SplitFrom(_, _, _)
SplitFrom(s, i, cur) ==
    IF i > Len(s)
    THEN IF cur = <<>> THEN <<>> ELSE <<cur>>
    ELSE IF s[i] \in Whitespace
         THEN IF cur = <<>>
              THEN SplitFrom(s, i + 1, <<>>)
              ELSE <<cur>> \o SplitFrom(s, i + 1, <<>>)
         ELSE SplitFrom(s, i + 1, Append(cur, s[i]))

Split(s) == SplitFrom(s, 1, <<>>)

\* set(list)
ToSet(seq) == {seq[i] : i \in 1..Len(seq)}

\* min(a, b)
Min(a, b) == IF a <= b THEN a ELSE b

----------------------------------------------------------------------------
(* src/matching_service.py *)

TypeWeight == 40
ColorWeight == 25
BrandWeight == 20
FeatureCap == 15
FeatureStep == 5

\* a lookup with the display default of app.py, .get(f, "Unknown")
Field_DefaultUnknown(item, f) == Get(item, f, Str(Unknown))

\* the key lookup of every scored field: lost_item.get(f, ""), found_item.get(f, "")
Field(item, f) == Get(item, f, EmptyStr)

\* .lower() raises AttributeError on a value that is not a str
RaisesAttributeError(lost, found) ==
    \E f \in ScoredFields : ~IsStr(Field(lost, f)) \/ ~IsStr(Field(found, f))

\* .lower() left out
TypePoints_CaseSensitive(lost, found) ==
    IF Field(lost, "item_type").v = Field(found, "item_type").v
    THEN TypeWeight ELSE 0

\* lines 6-7
TypePoints(lost, found) ==
    IF Lower(Field(lost, "item_type").v) = Lower(Field(found, "item_type").v)
    THEN TypeWeight ELSE 0

\* containment tested in one direction only
ColorPoints_OneWay(lost, found) ==
    IF Contains(Lower(Field(lost, "color").v), Lower(Field(found, "color").v))
    THEN ColorWeight ELSE 0

\* lines 10-12
ColorPoints(lost, found) ==
    IF \/ Contains(Lower(Field(lost, "color").v), Lower(Field(found, "color").v))
       \/ Contains(Lower(Field(found, "color").v), Lower(Field(lost, "color").v))
    THEN ColorWeight ELSE 0

\* the sentinel test left out
BrandPoints_IgnoresSentinel(lost, found) ==
    IF Lower(Field(lost, "brand").v) = Lower(Field(found, "brand").v)
    THEN BrandWeight ELSE 0

\* the sentinel tested on the lowercased brand
BrandPoints_LowerSentinel(lost, found) ==
    IF /\ Lower(Field(lost, "brand").v) = Lower(Field(found, "brand").v)
       /\ Lower(Field(lost, "brand").v) # Lower(Unknown)
    THEN BrandWeight ELSE 0

\* lines 15-16
BrandPoints(lost, found) ==
    IF /\ Lower(Field(lost, "brand").v) = Lower(Field(found, "brand").v)
       /\ Field(lost, "brand").v # Unknown
    THEN BrandWeight ELSE 0

\* min() left out
FeaturePoints_Uncapped(lost, found) ==
    LET lost_features == ToSet(Split(Lower(Field(lost, "features").v)))
        found_features == ToSet(Split(Lower(Field(found, "features").v)))
        feature_overlap == Cardinality(lost_features \cap found_features)
    IN  IF feature_overlap > 0 THEN feature_overlap * FeatureStep ELSE 0

\* + for *
FeaturePoints_Added(lost, found) ==
    LET lost_features == ToSet(Split(Lower(Field(lost, "features").v)))
        found_features == ToSet(Split(Lower(Field(found, "features").v)))
        feature_overlap == Cardinality(lost_features \cap found_features)
    IN  IF feature_overlap > 0
        THEN Min(FeatureCap, feature_overlap + FeatureStep)
        ELSE 0

\* lines 19-23
FeaturePoints(lost, found) ==
    LET lost_features == ToSet(Split(Lower(Field(lost, "features").v)))
        found_features == ToSet(Split(Lower(Field(found, "features").v)))
        feature_overlap == Cardinality(lost_features \cap found_features)
    IN  IF feature_overlap > 0
        THEN Min(FeatureCap, feature_overlap * FeatureStep)
        ELSE 0

NoPoints == [type |-> 0, color |-> 0, brand |-> 0, features |-> 0]

\* setdefault for get: every missing scored key is written into the dict
WithDefaults(item) == [f \in DOMAIN item \cup ScoredFields |-> Field(item, f)]

calculate_match_score_setdefault(lost, found) ==
    IF RaisesAttributeError(lost, found)
    THEN [raised |-> TRUE, score |-> 0, points |-> NoPoints,
          lost_item |-> WithDefaults(lost), found_item |-> WithDefaults(found)]
    ELSE LET p == [type |-> TypePoints(lost, found),
                   color |-> ColorPoints(lost, found),
                   brand |-> BrandPoints(lost, found),
                   features |-> FeaturePoints(lost, found)]
         IN  [raised |-> FALSE,
              score |-> 0 + p.type + p.color + p.brand + p.features,
              points |-> p,
              lost_item |-> WithDefaults(lost), found_item |-> WithDefaults(found)]

\* The effect of one call: whether it raised, the score returned, the four
\* increments of score (ghost), and the two dicts as the call leaves them.
calculate_match_score(lost, found) ==
    IF RaisesAttributeError(lost, found)
    THEN [raised |-> TRUE, score |-> 0, points |-> NoPoints,
          lost_item |-> lost, found_item |-> found]
    ELSE LET p == [type |-> TypePoints(lost, found),
                   color |-> ColorPoints(lost, found),
                   brand |-> BrandPoints(lost, found),
                   features |-> FeaturePoints(lost, found)]
         IN  [raised |-> FALSE,
              score |-> 0 + p.type + p.color + p.brand + p.features,
              points |-> p,
              lost_item |-> lost, found_item |-> found]

\* what the caller sees of a call
Outcome(r) == [raised |-> r.raised, score |-> r.score, points |-> r.points]

NoResult == [raised |-> FALSE, score |-> -1, points |-> NoPoints]

----------------------------------------------------------------------------
(* Inputs of the scoring harness *)

\* every str over the alphabet of length at most n
RECURSIVE StrsUpTo(_, _)
StrsUpTo(alphabet, n) ==
    IF n = 0 THEN {<<>>}
    ELSE LET shorter == StrsUpTo(alphabet, n - 1)
         IN  shorter \cup {Append(s, c) : s \in shorter, c \in alphabet}

TokenList == <<"a", "b", "c", "d", "e", "f">>

\* the first n tokens of TokenList joined by single spaces
RECURSIVE Words(_)
Words(n) ==
    IF n <= 0 THEN <<>>
    ELSE IF n = 1 THEN <<TokenList[1]>>
    ELSE Words(n - 1) \o <<" ", TokenList[n]>>

\* upper case, repeated and leading and trailing whitespace: tokens {a, b}
Ragged == <<" ", "A", " ", " ", "b", "\t">>

LostTypes == {Absent, EmptyStr, Str(<<"a">>), Str(<<"b">>)}
LostColors == {Absent} \cup {Str(s) : s \in StrsUpTo({"a", "B"}, MaxColorLen)}
LostBrands == {Absent, Str(Unknown), Str(<<"A">>)}
LostFeatures == {Absent, Str(Ragged)} \cup {Str(Words(n)) : n \in 0..MaxTokens}

FoundTypes == {EmptyStr, Str(<<"a">>), Str(<<"A">>)}
FoundColors == {None, Str(<<"a">>), Str(<<"a", "B">>)}
FoundBrands == {EmptyStr, Str(<<"A">>), Str(Unknown), Str(Lower(Unknown))}
FoundFeatures == {Str(Ragged), Str(Words(MaxTokens - 1)), Str(Words(MaxTokens))}

LostPool ==
    {MkItem(ty, co, br, fe) :
        ty \in LostTypes, co \in LostColors, br \in LostBrands, fe \in LostFeatures}

FoundPool ==
    {MkItem(ty, co, br, fe) :
        ty \in FoundTypes, co \in FoundColors, br \in FoundBrands, fe \in FoundFeatures}

----------------------------------------------------------------------------
(* The scoring harness: one call, then either the same call again or the   *)
(* call with the two arguments swapped.                                    *)

NoItem == MkItem(Absent, Absent, Absent, Absent)

PageIdle ==
    /\ found_table = <<>>
    /\ lost_rows = 0
    /\ item_info = NoItem
    /\ found_items = <<>>
    /\ matches = <<>>
    /\ shown = <<>>
    /\ status = "idle"

InitScore ==
    /\ lost_item \in LostPool
    /\ found_item \in FoundPool
    /\ result = NoResult
    /\ prev = NoResult
    /\ pc = "idle"
    /\ PageIdle

\* score = calculate_match_score(lost_item, found_item)
Score ==
    /\ pc = "idle"
    /\ LET r == calculate_match_score(lost_item, found_item)
       IN  /\ result' = Outcome(r)
           /\ lost_item' = r.lost_item
           /\ found_item' = r.found_item
    /\ prev' = result
    /\ pc' = "scored"
    /\ UNCHANGED pageVars

\* the same call a second time
Rescore ==
    /\ pc = "scored"
    /\ LET r == calculate_match_score(lost_item, found_item)
       IN  /\ result' = Outcome(r)
           /\ lost_item' = r.lost_item
           /\ found_item' = r.found_item
    /\ prev' = result
    /\ pc' = "rescored"
    /\ UNCHANGED pageVars

\* score = calculate_match_score(found_item, lost_item)
ScoreSwapped ==
    /\ pc = "scored"
    /\ LET r == calculate_match_score(found_item, lost_item)
       IN  /\ result' = Outcome(r)
           /\ lost_item' = r.lost_item
           /\ found_item' = r.found_item
    /\ prev' = result
    /\ pc' = "swapped"
    /\ UNCHANGED pageVars

NextScore == Score \/ Rescore \/ ScoreSwapped

SpecScore == InitScore /\ [][NextScore]_vars

----------------------------------------------------------------------------
(* src/ai_service.py *)

\* f"Error: {str(e)}", cut to its first word
ErrorText == <<"E", "r", "r", "o", "r", ":">>

\* lines 62-69: the record returned when the vision call or the parse fails
\* (description is not scored and is left out of every dict of the model)
ExtractionFailed == MkItem(Str(Unknown), Str(Unknown), Str(Unknown), Str(ErrorText))

\* line 61: json.loads(content), whatever keys the vision model chose to send
ParsedReplies ==
    { MkItem(Str(<<"a">>), Str(<<"a">>), Str(<<"a">>), Str(Words(2))),
      MkItem(Absent, Str(<<"a">>), Absent, Absent) }

\* lines 19-69: every return value of extract_item_info
extract_item_info == {ExtractionFailed} \cup ParsedReplies

----------------------------------------------------------------------------
(* src/database.py *)

\* item_info.get(key): None for a key the dict does not hold
Column(item, key) == Get(item, key, None)

\* lines 16, 31: item_type TEXT NOT NULL
RaisesIntegrityError(item) == Column(item, "item_type") = None

\* lines 23, 38: created_at DEFAULT CURRENT_TIMESTAMP has a resolution of one
\* second.  Only the order of the stamps is read, so a stamp is kept as the
\* number of second boundaries crossed since the first insert; tick is 1 when
\* a boundary was crossed since the last insert.
NextStamp(table, tick) ==
    IF table = <<>> THEN 0 ELSE table[Len(table)].created_at + tick

\* lines 45-66: the table after the INSERT; id is the AUTOINCREMENT rowid
add_found_item(table, item, tick) ==
    Append(table,
           [id |-> Len(table) + 1,
            item_type |-> Column(item, "item_type"),
            color |-> Column(item, "color"),
            brand |-> Column(item, "brand"),
            features |-> Column(item, "features"),
            created_at |-> NextStamp(table, tick)])

\* lines 68-89: the lost_items table is only ever counted
add_lost_item(rows, item) == rows + 1

\* ORDER BY created_at DESC over a set of rows: a row of the latest stamp
\* first, any of them, then the others in such an order
RECURSIVE OrdersOf(_)
OrdersOf(rows) ==
    IF rows = {} THEN {<<>>}
    ELSE LET newest == {r \in rows : \A x \in rows : r.created_at >= x.created_at}
         IN  UNION {{<<r>> \o rest : rest \in OrdersOf(rows \ {r})} : r \in newest}

\* lines 91-102: SELECT * ... ORDER BY created_at DESC; rows with equal stamps
\* come back in an order SQL leaves open, so every such order is a result.
\* dict(row) holds every column as a key.
get_all_found_items(table) == OrdersOf(ToSet(table))

----------------------------------------------------------------------------
(* src/app.py *)

Threshold == 30
DisplayLimit == 6

\* str.strip()
RECURSIVE Strip(_)
Strip(s) ==
    IF s = <<>> THEN s
    ELSE IF s[1] \in Whitespace THEN Strip(Tail(s))
    ELSE IF s[Len(s)] \in Whitespace THEN Strip(SubSeq(s, 1, Len(s) - 1))
    ELSE s

\* x or default, for a str x
OrElse(x, default) == IF x = <<>> THEN default ELSE x

\* lines 252-259: a manual field replaces the extracted one when it is not empty
Merge(item, key, manual) ==
    IF manual = <<>> THEN item
    ELSE [k \in DOMAIN item \cup {key} |-> IF k = key THEN Str(manual) ELSE item[k]]

\* lines 231-234: the four text inputs of the found form
FoundForms ==
    { [type |-> <<>>, color |-> <<>>, brand |-> <<>>, features |-> <<>>],
      [type |-> <<"A">>, color |-> <<"B">>, brand |-> <<>>, features |-> <<>>],
      [type |-> <<"A">>, color |-> <<"B">>, brand |-> <<"b">>, features |-> <<"c">>] }

\* lines 313-317: the four text inputs of the lost form
LostForms ==
    { [type |-> <<" ", "a">>, color |-> <<>>, brand |-> <<>>, features |-> <<>>],
      [type |-> <<>>, color |-> <<"B">>, brand |-> <<"a">>, features |-> <<"c", " ">>],
      [type |-> <<>>, color |-> <<" ", "B">>, brand |-> <<>>, features |-> <<"a">>],
      [type |-> <<"A">>, color |-> <<"b">>, brand |-> <<"A">>, features |-> Words(3)] }

\* lines 321-327
TextQuery(form) ==
    MkItem(Str(OrElse(Strip(form.type), Unknown)),
           Str(OrElse(Strip(form.color), Unknown)),
           Str(OrElse(Strip(form.brand), Unknown)),
           Str(OrElse(Strip(form.features), <<>>)))

\* a run of the script starts with the locals of page_lost_item unset
LostPageReset ==
    /\ item_info' = NoItem
    /\ found_items' = <<>>
    /\ matches' = <<>>
    /\ shown' = <<>>

\* lines 186-226: the Extract Item Information button
FoundExtract ==
    /\ Len(found_table) < MaxItems
    /\ \E info \in extract_item_info, tick \in {0, 1} :
          IF Column(info, "item_type") # Str(Unknown)
          THEN IF RaisesIntegrityError(info)
               THEN /\ status' = "IntegrityError"
                    /\ UNCHANGED found_table
               ELSE /\ found_table' = add_found_item(found_table, info, tick)
                    /\ status' = "saved"
          ELSE /\ status' = "extraction_failed"
               /\ UNCHANGED found_table
    /\ LostPageReset
    /\ UNCHANGED <<lost_rows, scoreVars>>

\* lines 229-269: the Analyze & Save form
FoundForm ==
    /\ Len(found_table) < MaxItems
    /\ \E extracted \in extract_item_info, form \in FoundForms, tick \in {0, 1} :
          LET info == Merge(Merge(Merge(Merge(extracted,
                          "item_type", form.type), "color", form.color),
                          "brand", form.brand), "features", form.features)
          IN  IF RaisesIntegrityError(info)
              THEN /\ status' = "IntegrityError"
                   /\ UNCHANGED found_table
              ELSE /\ found_table' = add_found_item(found_table, info, tick)
                   /\ status' = "saved"
    /\ LostPageReset
    /\ UNCHANGED <<lost_rows, scoreVars>>

\* > for >= at the threshold
RECURSIVE ScanFrom_Strict(_, _)
ScanFrom_Strict(acc, i) ==
    IF i > Len(acc.found_items) THEN acc
    ELSE LET r == calculate_match_score(acc.item_info, acc.found_items[i])
             called == [acc EXCEPT !.item_info = r.lost_item,
                                   !.found_items[i] = r.found_item]
         IN  IF r.raised THEN [called EXCEPT !.raised = TRUE]
             ELSE IF r.score > Threshold
                  THEN ScanFrom_Strict([called EXCEPT !.matches =
                                          Append(@, [score |-> r.score,
                                                     found_item |-> r.found_item])],
                                       i + 1)
                  ELSE ScanFrom_Strict(called, i + 1)

\* lines 345-348: the loop over found_items from position i on.  acc holds the
\* query and the fetched list as the calls so far have left them, and matches.
RECURSIVE ScanFrom(_, _)
ScanFrom(acc, i) ==
    IF i > Len(acc.found_items) THEN acc
    ELSE LET r == calculate_match_score(acc.item_info, acc.found_items[i])
             called == [acc EXCEPT !.item_info = r.lost_item,
                                   !.found_items[i] = r.found_item]
         IN  IF r.raised THEN [called EXCEPT !.raised = TRUE]
             ELSE IF r.score >= Threshold
                  THEN ScanFrom([called EXCEPT !.matches =
                                   Append(@, [score |-> r.score,
                                              found_item |-> r.found_item])],
                                i + 1)
                  ELSE ScanFrom(called, i + 1)

\* an insertion that puts m in front of the entries of equal score
RECURSIVE InsertByScore_BeforeEqual(_, _)
InsertByScore_BeforeEqual(sorted, m) ==
    IF sorted = <<>> THEN <<m>>
    ELSE IF sorted[1].score > m.score
         THEN <<sorted[1]>> \o InsertByScore_BeforeEqual(Tail(sorted), m)
         ELSE <<m>> \o sorted

\* list.sort keeps equal keys in their order, also with reverse=True: m goes
\* behind every entry whose score is at least its own
RECURSIVE InsertByScore(_, _)
InsertByScore(sorted, m) ==
    IF sorted = <<>> THEN <<m>>
    ELSE IF sorted[1].score >= m.score
         THEN <<sorted[1]>> \o InsertByScore(Tail(sorted), m)
         ELSE <<m>> \o sorted

\* line 350: matches.sort(reverse=True, key=lambda x: x[0])
RECURSIVE SortByScore(_)
SortByScore(ms) ==
    IF ms = <<>> THEN <<>>
    ELSE InsertByScore(SortByScore(SubSeq(ms, 1, Len(ms) - 1)), ms[Len(ms)])

\* matches[-6:] for matches[:6]
TopMatches_Tail(ms) == SubSeq(ms, Len(ms) - Min(Len(ms), DisplayLimit) + 1, Len(ms))

\* line 356: matches[:6]
TopMatches(ms) == SubSeq(ms, 1, Min(Len(ms), DisplayLimit))

\* lines 330-370, from a query on
FindMatches(query) ==
    IF RaisesIntegrityError(query)
    THEN /\ item_info' = query
         /\ status' = "IntegrityError"
         /\ found_items' = <<>>
         /\ matches' = <<>>
         /\ shown' = <<>>
         /\ UNCHANGED lost_rows
    ELSE /\ lost_rows' = add_lost_item(lost_rows, query)
         /\ \E fetched \in get_all_found_items(found_table) :
               IF fetched = <<>>
               THEN /\ item_info' = query
                    /\ found_items' = fetched
                    /\ matches' = <<>>
                    /\ shown' = <<>>
                    /\ status' = "no_found_items"
               ELSE \E scan \in {ScanFrom([item_info |-> query, found_items |-> fetched,
                                          matches |-> <<>>, raised |-> FALSE], 1)} :
                    \E sorted \in {SortByScore(scan.matches)} :
                        /\ item_info' = scan.item_info
                        /\ found_items' = scan.found_items
                        /\ IF scan.raised
                           THEN /\ matches' = <<>>
                                /\ shown' = <<>>
                                /\ status' = "AttributeError"
                           ELSE /\ matches' = sorted
                                /\ shown' = IF sorted = <<>> THEN <<>> ELSE TopMatches(sorted)
                                /\ status' = IF sorted = <<>> THEN "no_matches" ELSE "matches"

\* lines 291-307 and 330-370: a photo of the lost item
LostImage ==
    /\ lost_rows < MaxLost
    /\ \E info \in extract_item_info : FindMatches(info)
    /\ UNCHANGED <<found_table, scoreVars>>

\* lines 309-327 and 330-370: a description of the lost item
LostText ==
    /\ lost_rows < MaxLost
    /\ \E form \in LostForms : FindMatches(TextQuery(form))
    /\ UNCHANGED <<found_table, scoreVars>>

Init ==
    /\ lost_item = NoItem
    /\ found_item = NoItem
    /\ result = NoResult
    /\ prev = NoResult
    /\ pc = "off"
    /\ PageIdle

Next == FoundExtract \/ FoundForm \/ LostImage \/ LostText

Spec == Init /\ [][Next]_vars

----------------------------------------------------------------------------
(* page_lost_item over a table that earlier runs of page_found_item filled *)

\* lines 252-259: the extracted record with the manual fields of the form merged in
MergedInfo(extracted, form) ==
    Merge(Merge(Merge(Merge(extracted,
        "item_type", form.type), "color", form.color),
        "brand", form.brand), "features", form.features)

\* the parsed reply that holds all four keys, and the form that fills in type
\* and color only
FullReply == CHOOSE info \in ParsedReplies : DOMAIN info = ScoredFields
TypeColorForm ==
    CHOOSE form \in FoundForms :
        form.type # <<>> /\ form.color # <<>> /\ form.brand = <<>> /\ form.features = <<>>

\* two of the records page_found_item saves: the reply by the button, and the
\* failure record by the form
PrefillInfos ==
    {FullReply, MergedInfo(ExtractionFailed, TypeColorForm)}

\* the table after the first n of the saves; the save numbered tie falls in the
\* same second as the one before it, every other save in a later second
RECURSIVE Fill(_, _, _)
Fill(infos, n, tie) ==
    IF n = 0 THEN <<>>
    ELSE add_found_item(Fill(infos, n - 1, tie), infos[n], IF n = tie THEN 0 ELSE 1)

PrefilledTables ==
    {Fill(infos, ShowRows, tie) :
        infos \in [1..ShowRows -> PrefillInfos], tie \in {0, ShowRows}}

InitShow ==
    /\ lost_item = NoItem
    /\ found_item = NoItem
    /\ result = NoResult
    /\ prev = NoResult
    /\ pc = "off"
    /\ found_table \in PrefilledTables
    /\ lost_rows = 0
    /\ item_info = NoItem
    /\ found_items = <<>>
    /\ matches = <<>>
    /\ shown = <<>>
    /\ status = "idle"

NextShow == LostImage \/ LostText

SpecShow == InitShow /\ [][NextShow]_vars

----------------------------------------------------------------------------
(* Vocabulary of the properties *)

\* the current call returned a score
Returned == pc # "idle" /\ ~result.raised

\* the value of a scored field, the empty str for a missing key
ValueOf(item, f) == IF f \in DOMAIN item THEN item[f] ELSE Str(<<>>)

\* the characters of a scored field, lowercased
Lowered(item, f) == Lower(ValueOf(item, f).v)

\* the field is missing or the empty string
Blank(item, f) == f \notin DOMAIN item \/ item[f] = Str(<<>>)

\* x occurs in y as a run of consecutive characters
OccursIn(x, y) ==
    \E i \in 1..(Len(y) + 1), j \in 0..Len(y) : SubSeq(y, i, j) = x

\* the whitespace-separated tokens of s: the runs of non-whitespace characters
\* that whitespace or an end of s bounds on both sides
TokensOf(s) ==
    LET n == Len(s)
        bounded == {ij \in (1..n) \X (1..n) :
                       /\ ij[1] <= ij[2]
                       /\ ij[1] = 1 \/ s[ij[1] - 1] \in Whitespace
                       /\ ij[2] = n \/ s[ij[2] + 1] \in Whitespace
                       /\ \A k \in ij[1]..ij[2] : s[k] \notin Whitespace}
    IN  {SubSeq(s, ij[1], ij[2]) : ij \in bounded}

\* the number of distinct lowercased tokens the two features strings share
SharedTokens(a, b) ==
    Cardinality(TokensOf(Lowered(a, "features")) \cap TokensOf(Lowered(b, "features")))

----------------------------------------------------------------------------
(* Properties of calculate_match_score, under SpecScore *)

\* C1: whenever the four scored fields of both records are strings, the call
\* returns an integer score between 0 and 100.
C1_ScoreInRange ==
    (pc # "idle" /\ \A f \in ScoredFields :
                        IsStr(ValueOf(lost_item, f)) /\ IsStr(ValueOf(found_item, f)))
    => /\ ~result.raised
       /\ result.score \in 0..100

\* the four signals all score their maximum on records that hold all four keys
C1_Witness ==
    /\ pc = "scored"
    /\ DOMAIN lost_item = ScoredFields
    /\ DOMAIN found_item = ScoredFields
    /\ lost_item # found_item
    /\ result.score = 100

\* C2: the score is the sum of four independent contributions: 40 iff the
\* item types are equal ignoring case; 25 iff one lowercased color occurs in
\* the other; 20 iff the brands are equal ignoring case and the query's brand
\* is not the literal "Unknown"; min(15, 5 * n) for n shared distinct
\* lowercased tokens of the features.
C2_SumOfSignals ==
    Returned =>
        result.score =
            (IF Lowered(lost_item, "item_type") = Lowered(found_item, "item_type")
             THEN 40 ELSE 0)
          + (IF \/ OccursIn(Lowered(lost_item, "color"), Lowered(found_item, "color"))
                \/ OccursIn(Lowered(found_item, "color"), Lowered(lost_item, "color"))
             THEN 25 ELSE 0)
          + (IF /\ Lowered(lost_item, "brand") = Lowered(found_item, "brand")
                /\ ValueOf(lost_item, "brand") # Str(Unknown)
             THEN 20 ELSE 0)
          + (IF 5 * SharedTokens(lost_item, found_item) < 15
             THEN 5 * SharedTokens(lost_item, found_item) ELSE 15)

\* query and candidate brand both "Unknown" (no brand points), the query has no
\* color (25), more than three shared tokens (capped at 15), equal types (40)
C2_Witness ==
    /\ pc = "scored"
    /\ ValueOf(lost_item, "brand") = Str(Unknown)
    /\ ValueOf(found_item, "brand") = Str(Unknown)
    /\ "color" \notin DOMAIN lost_item
    /\ SharedTokens(lost_item, found_item) > 3
    /\ result.score = 80

\* C5 as stated: a fully specified record whose brand is not "Unknown" and
\* whose features hold at least one token scores 100 against itself.
C5_SelfMatchOneToken ==
    (/\ pc = "scored"
     /\ lost_item = found_item
     /\ \A f \in ScoredFields : f \in DOMAIN lost_item /\ IsStr(lost_item[f])
                                  /\ lost_item[f] # EmptyStr
     /\ lost_item["brand"] # Str(Unknown)
     /\ SharedTokens(lost_item, lost_item) >= 1)
    => (~result.raised /\ result.score = 100)

\* C5 as amended: a fully specified record whose brand is not "Unknown" and
\* whose features hold at least three distinct tokens (ignoring case) scores
\* 100 against itself; with n < 3 distinct tokens it scores 85 + 5 * n.
C5_SelfMatch ==
    (/\ pc = "scored"
     /\ lost_item = found_item
     /\ \A f \in ScoredFields : f \in DOMAIN lost_item /\ IsStr(lost_item[f])
                                  /\ lost_item[f] # EmptyStr
     /\ lost_item["brand"] # Str(Unknown))
    => /\ ~result.raised
       /\ SharedTokens(lost_item, lost_item) >= 3 => result.score = 100
       /\ SharedTokens(lost_item, lost_item) < 3
             => result.score = 85 + 5 * SharedTokens(lost_item, lost_item)

\* a record with exactly three tokens scored against itself
C5_Witness ==
    /\ pc = "scored"
    /\ lost_item = found_item
    /\ DOMAIN lost_item = ScoredFields
    /\ \A f \in ScoredFields : lost_item[f] # EmptyStr
    /\ lost_item["brand"] # Str(Unknown)
    /\ SharedTokens(lost_item, lost_item) = 3
    /\ result.score = 100

\* C7 as stated: a signal whose field is missing or empty on the query or on
\* the candidate adds 0.
C7_BlankAddsNothing ==
    Returned =>
        /\ (Blank(lost_item, "item_type") \/ Blank(found_item, "item_type"))
              => result.points.type = 0
        /\ (Blank(lost_item, "color") \/ Blank(found_item, "color"))
              => result.points.color = 0
        /\ (Blank(lost_item, "brand") \/ Blank(found_item, "brand"))
              => result.points.brand = 0
        /\ (Blank(lost_item, "features") \/ Blank(found_item, "features"))
              => result.points.features = 0

\* C7 as amended: features missing or empty on either side add 0; an item
\* type or brand missing or empty on exactly one side adds 0, and on both sides
\* adds the full 40 or 20; a color missing or empty on either side adds 25.
C7_BlankContribution ==
    Returned =>
        /\ (Blank(lost_item, "features") \/ Blank(found_item, "features"))
              => result.points.features = 0
        /\ (Blank(lost_item, "item_type") # Blank(found_item, "item_type"))
              => result.points.type = 0
        /\ (Blank(lost_item, "item_type") /\ Blank(found_item, "item_type"))
              => result.points.type = 40
        /\ (Blank(lost_item, "brand") # Blank(found_item, "brand"))
              => result.points.brand = 0
        /\ (Blank(lost_item, "brand") /\ Blank(found_item, "brand"))
              => result.points.brand = 20
        /\ (Blank(lost_item, "color") \/ Blank(found_item, "color"))
              => result.points.color = 25

\* the candidate of the call has no color key, no features and an empty item
\* type; the query has a color, features and an empty brand
C7_Witness ==
    /\ pc = "swapped"
    /\ ~result.raised
    /\ "color" \notin DOMAIN found_item
    /\ "features" \notin DOMAIN found_item
    /\ ~Blank(lost_item, "color")
    /\ ~Blank(lost_item, "features")
    /\ Blank(lost_item, "brand") /\ Blank(found_item, "brand")
    /\ Blank(lost_item, "item_type") /\ Blank(found_item, "item_type")
    /\ result.score = 85

\* C8: the type, color and features contributions of a call equal those of
\* the call with the two records swapped.
C8_SymmetricSignals ==
    (pc = "swapped" /\ ~result.raised)
    => /\ ~prev.raised
       /\ result.points.type = prev.points.type
       /\ result.points.color = prev.points.color
       /\ result.points.features = prev.points.features

\* two different records, the color of one strictly inside the color of the
\* other, sharing both type and tokens, scored in both directions
C8_Witness ==
    /\ pc = "swapped"
    /\ ~result.raised
    /\ Len(ValueOf(lost_item, "color").v) > Len(ValueOf(found_item, "color").v)
    /\ ~Blank(found_item, "color")
    /\ ValueOf(lost_item, "item_type") # ValueOf(found_item, "item_type")
    /\ ValueOf(lost_item, "features") # ValueOf(found_item, "features")
    /\ result.points = [type |-> 40, color |-> 25, brand |-> 0, features |-> 10]

\* C9 as stated: when exactly one of the two brands is the literal "Unknown",
\* the brand points of a call differ from those of the swapped call.
C9_UnknownAlwaysAsymmetric ==
    (/\ pc = "swapped" /\ ~result.raised
     /\ (ValueOf(lost_item, "brand") = Str(Unknown))
            # (ValueOf(found_item, "brand") = Str(Unknown)))
    => result.points.brand # prev.points.brand

\* C9 as amended: when exactly one of the two brands is the literal "Unknown",
\* the brand points of the two directions differ exactly when the other brand
\* is another spelling of "unknown" (equal to it ignoring case): then the call
\* whose query brand is "Unknown" adds 0 and the swapped call adds 20.  For
\* any other brand on the other side both directions add 0.
C9_UnknownAsymmetry ==
    (/\ pc = "swapped" /\ ~result.raised
     /\ (ValueOf(lost_item, "brand") = Str(Unknown))
            # (ValueOf(found_item, "brand") = Str(Unknown)))
    => IF Lowered(lost_item, "brand") = Lowered(found_item, "brand")
       THEN IF ValueOf(lost_item, "brand") = Str(Unknown)
            THEN result.points.brand = 0 /\ prev.points.brand = 20
            ELSE result.points.brand = 20 /\ prev.points.brand = 0
       ELSE result.points.brand = 0 /\ prev.points.brand = 0

\* the query brand is "unknown", the candidate brand "Unknown": 20 this way,
\* 0 the other way
C9_Witness ==
    /\ pc = "swapped"
    /\ ValueOf(found_item, "brand") = Str(Unknown)
    /\ ValueOf(lost_item, "brand") = Str(Lower(Unknown))
    /\ result.points.brand = 20
    /\ prev.points.brand = 0

----------------------------------------------------------------------------
(* Properties of page_lost_item, under Spec *)

\* the run of page_lost_item got as far as a ranked result
Ranked == status \in {"matches", "no_matches"}

\* the score of the query against the candidate at position i of the fetched list
ScoreOf(i) == calculate_match_score(item_info, found_items[i]).score

\* the positions of the fetched list whose candidate matches[k] is
PlacesOf(k) == {i \in 1..Len(found_items) : found_items[i] = matches[k].found_item}

\* C3: the ranked result holds exactly the candidates that score at least 30,
\* each once and with its score; it is empty when there is no candidate or none
\* reaches 30.
C3_ExactlyAdmitted ==
    /\ Ranked =>
          /\ \A i \in 1..Len(found_items) :
                (ScoreOf(i) >= 30)
                   <=> (\E k \in 1..Len(matches) :
                           matches[k] = [score |-> ScoreOf(i), found_item |-> found_items[i]])
          /\ \A k \in 1..Len(matches) : matches[k].score >= 30 /\ PlacesOf(k) # {}
          /\ \A k, l \in 1..Len(matches) : k # l => matches[k] # matches[l]
          /\ (status = "no_matches") <=> (matches = <<>>)
    /\ (status = "no_found_items") => (found_items = <<>> /\ matches = <<>>)

\* one candidate admitted with exactly 30, another left out with less
C3_Witness ==
    /\ status = "matches"
    /\ Len(found_items) = 2
    /\ Len(matches) = 1
    /\ matches[1].score = 30
    /\ \E i \in 1..2 : ScoreOf(i) < 30 /\ ScoreOf(i) > 0

\* C4: the ranked result is in non-increasing order of score, and candidates
\* of equal score keep the order they have in the fetched list.
C4_SortedAndStable ==
    Ranked =>
        \A k, l \in 1..Len(matches) :
            k < l =>
               /\ matches[k].score >= matches[l].score
               /\ (matches[k].score = matches[l].score)
                     => \A i \in PlacesOf(k), j \in PlacesOf(l) : i < j

\* two different candidates admitted with the same score
C4_Witness ==
    /\ status = "matches"
    /\ Len(matches) = 2
    /\ matches[1].score = matches[2].score
    /\ matches[1].found_item.color # matches[2].found_item.color

\* C6: scoring never raises, also not for a found item stored with a NULL
\* color, brand or features.
C6_NeverRaises == status # "AttributeError"

----------------------------------------------------------------------------
(* Properties of page_found_item, under Spec *)

\* C12: a found item is saved only if extraction succeeded: no row of the
\* found_items table has the failure sentinel "Unknown" as its item_type.
C12_NoUnknownSaved ==
    \A i \in 1..Len(found_table) : found_table[i].item_type # Str(Unknown)

----------------------------------------------------------------------------
(* Admission by item type, under Spec *)

\* the item types of the query and of the candidate at position i are equal
\* ignoring case
SameType(i) == Lowered(item_info, "item_type") = Lowered(found_items[i], "item_type")

\* the candidate at position i of the fetched list is in the ranked result
Admitted(i) == \E k \in 1..Len(matches) : matches[k].found_item = found_items[i]

\* what the color, the brand and the features of the candidate at position i
\* add to its score
OtherPoints(i) ==
      (IF \/ OccursIn(Lowered(item_info, "color"), Lowered(found_items[i], "color"))
          \/ OccursIn(Lowered(found_items[i], "color"), Lowered(item_info, "color"))
       THEN 25 ELSE 0)
    + (IF /\ Lowered(item_info, "brand") = Lowered(found_items[i], "brand")
          /\ ValueOf(item_info, "brand") # Str(Unknown)
       THEN 20 ELSE 0)
    + (IF 5 * SharedTokens(item_info, found_items[i]) < 15
       THEN 5 * SharedTokens(item_info, found_items[i]) ELSE 15)

\* C13: in a ranked result, every candidate whose item_type equals the
\* query's ignoring case is admitted, with a score of at least 40, whatever
\* its other fields; a candidate of another item_type is admitted only if its
\* color, brand and features together add at least 30.
C13_TypeAdmits ==
    Ranked =>
        \A i \in 1..Len(found_items) :
            /\ SameType(i) =>
                  /\ Admitted(i)
                  /\ \A k \in 1..Len(matches) :
                        matches[k].found_item = found_items[i] => matches[k].score >= 40
            /\ (~SameType(i) /\ Admitted(i)) => OtherPoints(i) >= 30

\* a candidate of the query's type, spelled in the other case and with nothing
\* else in common, admitted with 40, beside a candidate of another type whose
\* other signals add less than 30 and which is left out
C13_Witness ==
    /\ status = "matches"
    /\ Len(found_items) = 2
    /\ \E i, j \in 1..2 :
          /\ SameType(i) /\ Admitted(i) /\ OtherPoints(i) = 0
          /\ ValueOf(item_info, "item_type") # ValueOf(found_items[i], "item_type")
          /\ ~SameType(j) /\ ~Admitted(j) /\ OtherPoints(j) = 25

----------------------------------------------------------------------------
(* The displayed matches, under SpecShow *)

\* the number of fetched candidates that score at least 30
AdmittedCount == Cardinality({i \in 1..Len(found_items) : ScoreOf(i) >= 30})

\* the fetched candidate at position i is displayed
Shown(i) == \E k \in 1..Len(shown) : shown[k].found_item = found_items[i]

\* C11: the page shows at most 6 matches, the first min(6, n) entries of the
\* thresholded, descending list of the n admitted candidates, so no admitted
\* candidate that is not shown scores strictly higher than one that is shown.
C11_TopSixShown ==
    Ranked =>
        /\ Len(shown) <= 6
        /\ Len(matches) = AdmittedCount
        /\ Len(shown) = (IF AdmittedCount < 6 THEN AdmittedCount ELSE 6)
        /\ \A k \in 1..Len(matches) : matches[k].score >= 30
        /\ \A k \in 1..(Len(matches) - 1) : matches[k].score >= matches[k + 1].score
        /\ \A k \in 1..Len(shown) : shown[k] = matches[k]
        /\ \A i \in 1..Len(found_items), k \in 1..Len(shown) :
              (ScoreOf(i) >= 30 /\ ~Shown(i)) => ScoreOf(i) <= shown[k].score

\* seven candidates admitted with different scores, six shown, the one left
\* out scoring strictly less than the first one shown
C11_Witness ==
    /\ status = "matches"
    /\ Len(matches) > 6
    /\ Len(shown) = 6
    /\ \E i \in 1..Len(found_items) :
          ScoreOf(i) >= 30 /\ ~Shown(i) /\ ScoreOf(i) < shown[1].score

====
